---- MODULE Spec2Model ----
(***************************************************************************)
(* Model of msgcodegen.py: the distutils commands build_messages and       *)
(* clean_messages and the MessageCodeMapping descriptor.                   *)
(*                                                                         *)
(* Strings are sequences of one-character strings, so that the regular     *)
(* expression substitutions, str.upper, str.format, str.split/join and the *)
(* lexicographic order of sorted() are computed character by character.    *)
(***************************************************************************)
EXTENDS Integers, Sequences, FiniteSets, Bags, TLC

VARIABLES
    messages,         \* build_messages._messages (class attribute)
    pb_imports,       \* build_messages._pb_imports (class attribute)
    empty_responses,  \* build_messages._empty_responses (class attribute)
    source,           \* rows of the CSV file at self.source
    newer,            \* the source file is newer than the destination file
    contents,         \* <<self._contents>> of the last _generate, <<>> before it
    destination,      \* <<text>> of the file at self.destination, <<>> if absent
    status,           \* how the last run() ended: "idle", "ok" or "failed"
    arg,              \* a message name handed to MessageCodeMapping
    ret               \* its _message_code_name(), None before the call

vars == <<messages, pb_imports, empty_responses, source, newer, contents,
          destination, status, arg, ret>>

\* Python's None: no sequence of one-character strings equals it.
None == <<"None">>

-----------------------------------------------------------------------------
(* Characters                                                              *)

LowerCase == <<"a", "b", "c", "d", "e", "f", "g", "h", "i", "j", "k", "l", "m",
               "n", "o", "p", "q", "r", "s", "t", "u", "v", "w", "x", "y", "z">>

UpperCase == <<"A", "B", "C", "D", "E", "F", "G", "H", "I", "J", "K", "L", "M",
               "N", "O", "P", "Q", "R", "S", "T", "U", "V", "W", "X", "Y", "Z">>

Digits == <<"0", "1", "2", "3", "4", "5", "6", "7", "8", "9">>

IndexOf(c, alphabet) == CHOOSE i \in 1..Len(alphabet) : alphabet[i] = c

UpperSet == {UpperCase[i] : i \in 1..Len(UpperCase)}
LowerSet == {LowerCase[i] : i \in 1..Len(LowerCase)}
DigitSet == {Digits[i] : i \in 1..Len(Digits)}

IsUpper(c) == c \in UpperSet
IsLower(c) == c \in LowerSet
IsDigit(c) == c \in DigitSet

\* ord(c) for the ASCII characters that occur in names, modules and lines.
Ord(c) ==
    IF IsDigit(c) THEN 47 + IndexOf(c, Digits)
    ELSE IF IsUpper(c) THEN 64 + IndexOf(c, UpperCase)
    ELSE IF IsLower(c) THEN 96 + IndexOf(c, LowerCase)
    ELSE CASE c = "\n" -> 10
           [] c = " " -> 32
           [] c = "+" -> 43
           [] c = "-" -> 45
           [] c = "." -> 46
           [] c = ":" -> 58
           [] c = "=" -> 61
           [] c = "_" -> 95

\* str.upper() on one character.
UpperChar(c) == IF IsLower(c) THEN UpperCase[IndexOf(c, LowerCase)] ELSE c

\* s.upper()
upper(s) == [i \in 1..Len(s) |-> UpperChar(s[i])]

\* s.replace(old, new) for a one-character old.
RECURSIVE replace(_, _, _)
replace(s, old, new) ==
    IF s = <<>> THEN <<>>
    ELSE (IF Head(s) = old THEN new ELSE <<Head(s)>>) \o replace(Tail(s), old, new)

\* The order of str under cmp / sorted(): lexicographic by character code.
RECURSIVE StrLess(_, _)
StrLess(s, t) ==
    IF t = <<>> THEN FALSE
    ELSE IF s = <<>> THEN TRUE
    ELSE IF Head(s) # Head(t) THEN Ord(Head(s)) < Ord(Head(t))
    ELSE StrLess(Tail(s), Tail(t))

-----------------------------------------------------------------------------
(* MessageCodeMapping._message_code_name                                   *)

RpbPrefix == <<"R", "p", "b">>
MsgCodePrefix == <<"M", "S", "G", "_", "C", "O", "D", "E", "_">>

\* re.sub(r"^Rpb", "", s)
StripRpb(s) ==
    IF Len(s) >= 3 /\ SubSeq(s, 1, 3) = RpbPrefix THEN SubSeq(s, 4, Len(s)) ELSE s

\* The ends k of group 1 for which ([A-Z]+)([A-Z][a-z]) matches at i:
\* s[i..k-1] is group 1 (one or more capitals), s[k] s[k+1] is group 2.
AcronymMatches(s, i) ==
    {k \in (i + 1)..(Len(s) - 1) :
        /\ \A j \in i..k : IsUpper(s[j])
        /\ IsLower(s[k + 1])}

\* ([A-Z]{2,})([A-Z][a-z]) in place of ([A-Z]+)([A-Z][a-z]).
RECURSIVE AcronymSubTwoOrMore(_, _)
AcronymSubTwoOrMore(s, i) ==
    IF i > Len(s) THEN <<>>
    ELSE IF AcronymMatches(s, i) \ {i + 1} # {}
    THEN LET k == CHOOSE x \in AcronymMatches(s, i) :
                      \A y \in AcronymMatches(s, i) : y <= x
         IN  SubSeq(s, i, k - 1) \o <<"_", s[k], s[k + 1]>>
                 \o AcronymSubTwoOrMore(s, k + 2)
    ELSE <<s[i]>> \o AcronymSubTwoOrMore(s, i + 1)

\* re.sub(r"([A-Z]+)([A-Z][a-z])", r'\1_\2', s) from position i on: the
\* leftmost match is replaced and the scan goes on after it; + is greedy.
RECURSIVE AcronymSub(_, _)
AcronymSub(s, i) ==
    IF i > Len(s) THEN <<>>
    ELSE IF AcronymMatches(s, i) # {}
    THEN LET k == CHOOSE x \in AcronymMatches(s, i) :
                      \A y \in AcronymMatches(s, i) : y <= x
         IN  SubSeq(s, i, k - 1) \o <<"_", s[k], s[k + 1]>> \o AcronymSub(s, k + 2)
    ELSE <<s[i]>> \o AcronymSub(s, i + 1)

\* The second substitution left out.
CamelSubSkipped(s, i) == SubSeq(s, i, Len(s))

\* re.sub(r"([a-z\d])([A-Z])", r'\1_\2', s) from position i on.
RECURSIVE CamelSub(_, _)
CamelSub(s, i) ==
    IF i > Len(s) THEN <<>>
    ELSE IF /\ i < Len(s)
            /\ (IsLower(s[i]) \/ IsDigit(s[i]))
            /\ IsUpper(s[i + 1])
    THEN <<s[i], "_", s[i + 1]>> \o CamelSub(s, i + 2)
    ELSE <<s[i]>> \o CamelSub(s, i + 1)

\* word.replace("-", "_") left out.
HyphenKept(word) == word

\* word.replace("-", "_")
HyphenToUnderscore(word) == replace(word, "-", <<"_">>)

message_code_name(message) ==
    LET strip_rpb == StripRpb(message)
        word1 == AcronymSub(strip_rpb, 1)
        word2 == CamelSub(word1, 1)
        word3 == HyphenToUnderscore(word2)
    IN  MsgCodePrefix \o upper(word3)

-----------------------------------------------------------------------------
(* MessageCodeMapping                                                      *)

\* s.strip() for blanks, as int() does before it reads the digits.
RECURSIVE strip(_)
strip(s) ==
    IF s # <<>> /\ Head(s) = " " THEN strip(Tail(s))
    ELSE IF s # <<>> /\ s[Len(s)] = " " THEN strip(SubSeq(s, 1, Len(s) - 1))
    ELSE s

Unsigned(s) == IF s # <<>> /\ Head(s) \in {"+", "-"} THEN Tail(s) ELSE s

\* int(code) returns; otherwise it raises ValueError.
IsIntLiteral(code) ==
    LET digits == Unsigned(strip(code))
    IN  digits # <<>> /\ \A i \in 1..Len(digits) : IsDigit(digits[i])

RECURSIVE DigitsValue(_)
DigitsValue(digits) ==
    IF digits = <<>> THEN 0
    ELSE 10 * DigitsValue(SubSeq(digits, 1, Len(digits) - 1))
             + (IndexOf(digits[Len(digits)], Digits) - 1)

\* int(code)
int(code) ==
    LET text == strip(code)
    IN  IF Head(text) = "-" THEN 0 - DigitsValue(Unsigned(text))
        ELSE DigitsValue(Unsigned(text))

\* "{0}".format(n) for an int n.
RECURSIVE str(_)
str(n) ==
    IF n < 0 THEN <<"-">> \o str(0 - n)
    ELSE IF n < 10 THEN <<Digits[n + 1]>>
    ELSE str(n \div 10) \o <<Digits[(n % 10) + 1]>>

\* "riak_pb.{0}_pb2".format(proto)
module_name(proto) ==
    <<"r", "i", "a", "k", "_", "p", "b", ".">> \o proto \o <<"_", "p", "b", "2">>

riak == <<"r", "i", "a", "k">>
riak_kv == <<"r", "i", "a", "k", "_", "k", "v">>
riak_dt == <<"r", "i", "a", "k", "_", "d", "t">>

RpbPingReq == <<"R", "p", "b", "P", "i", "n", "g", "R", "e", "q">>
RpbPingResp == <<"R", "p", "b", "P", "i", "n", "g", "R", "e", "s", "p">>
RpbErrorResp == <<"R", "p", "b", "E", "r", "r", "o", "r", "R", "e", "s", "p">>
RpbGetClientIdReq == <<"R", "p", "b", "G", "e", "t", "C", "l", "i", "e", "n", "t",
                       "I", "d", "R", "e", "q">>
RpbGetBucketKeyPreflistResp ==
    <<"R", "p", "b", "G", "e", "t", "B", "u", "c", "k", "e", "t", "K", "e", "y",
      "P", "r", "e", "f", "l", "i", "s", "t", "R", "e", "s", "p">>

\* The generated protobuf modules that __import__ finds, each with the
\* message classes in its __dict__. riak_pb.riak_dt_pb2 is not among them,
\* and RpbPingReq, a message without fields, has no class.
PbModules ==
    {[name |-> module_name(riak),
      classes |-> {RpbErrorResp, RpbGetClientIdReq}],
     [name |-> module_name(riak_kv),
      classes |-> {RpbGetBucketKeyPreflistResp}]}

\* MessageCodeMapping._message_class: the class found, held as its __name__
\* (a generated module binds each class to its own name), or None after an
\* ImportError (no such module) or a KeyError (no such class).
message_class(module, message) ==
    IF \E pbmod \in PbModules : pbmod.name = module /\ message \in pbmod.classes
    THEN message
    ELSE None

\* MessageCodeMapping(*row) raises: a TypeError unless the row has three
\* fields, a ValueError unless the first is an integer.
Raises(row) == Len(row) # 3 \/ ~IsIntLiteral(row[1])

\* MessageCodeMapping(*row)
MessageCodeMapping(row) ==
    [code |-> int(row[1]),
     message |-> row[2],
     proto |-> row[3],
     message_code_name |-> message_code_name(row[2]),
     module_name |-> module_name(row[3]),
     message_class |-> message_class(module_name(row[3]), row[2])]

\* cmp(a, b)
cmp(a, b) == IF a < b THEN 0 - 1 ELSE IF a > b THEN 1 ELSE 0

\* MessageCodeMapping.__cmp__
MessageCmp(self, other) == cmp(self.code, other.code)

-----------------------------------------------------------------------------
(* build_messages._load                                                    *)

\* The rows a catalog file is made of: well-formed ones, one with two fields
\* and one whose code is no integer.
Rows ==
    {<<<<"1", "0">>, RpbErrorResp, riak>>,
     <<<<"9">>, RpbPingReq, riak>>,
     <<<<"9">>, RpbErrorResp, riak_dt>>,
     <<<<"2">>, RpbGetBucketKeyPreflistResp, riak_kv>>,
     <<<<"3">>, RpbPingResp>>,
     <<<<"x">>, RpbPingReq, riak>>}

\* MessageCodeMapping(*row) of every row that constructs one (each evaluated
\* once).
Constructed == [row \in {r \in Rows : ~Raises(r)} |-> MessageCodeMapping(row)]

\* The test of message_class turned round.
LoadRowInverted(acc, row) ==
    LET message == Constructed[row]
    IN  [messages |-> acc.messages (+) SetToBag({message}),
         pb_imports |-> acc.pb_imports \cup {message.module_name},
         empty_responses |->
             IF message.message_class # None
             THEN acc.empty_responses (+) SetToBag({message})
             ELSE acc.empty_responses,
         raised |-> FALSE]

\* The body of the loop of _load for one row that MessageCodeMapping accepts.
\* _messages holds objects hashed by identity (the class defines __cmp__ but
\* neither __hash__ nor __eq__), so every row adds an element: a bag of the
\* objects' values.
LoadRow(acc, row) ==
    LET message == Constructed[row]
    IN  [messages |-> acc.messages (+) SetToBag({message}),
         pb_imports |-> acc.pb_imports \cup {message.module_name},
         empty_responses |->
             IF message.message_class = None
             THEN acc.empty_responses (+) SetToBag({message})
             ELSE acc.empty_responses,
         raised |-> FALSE]

\* A row that raises is passed over and the loop goes on.
RECURSIVE LoadRowsSkipping(_, _)
LoadRowsSkipping(acc, rows) ==
    IF rows = <<>> THEN acc
    ELSE IF Raises(Head(rows)) THEN LoadRowsSkipping(acc, Tail(rows))
    ELSE LoadRowsSkipping(LoadRow(acc, Head(rows)), Tail(rows))

\* _load over rows: the first row that raises ends the loop, and what the
\* rows before it added stays.
RECURSIVE LoadRows(_, _)
LoadRows(acc, rows) ==
    IF rows = <<>> THEN acc
    ELSE IF Raises(Head(rows)) THEN [acc EXCEPT !.raised = TRUE]
    ELSE LoadRows(LoadRow(acc, Head(rows)), Tail(rows))

-----------------------------------------------------------------------------
(* build_messages._generate                                                *)

WrapWidth == 76

NoneText == <<"N", "o", "n", "e">>
Indent == <<" ", " ", " ", " ">>
\* os.linesep, on POSIX
linesep == <<"\n">>

\* sorted(bag) for a bag of MessageCodeMapping: the lists sorted() can
\* return. The sort is stable and a set iterates in no fixed order, so
\* objects of equal code come in any order.
RECURSIVE SortedMessages(_)
SortedMessages(bag) ==
    IF bag = EmptyBag THEN {<<>>}
    ELSE UNION {{<<m>> \o rest : rest \in SortedMessages(bag (-) SetToBag({m}))} :
                   m \in {x \in BagToSet(bag) :
                             \A y \in BagToSet(bag) : MessageCmp(x, y) <= 0}}

\* sorted(set) for a set of str.
RECURSIVE SortedStrings(_)
SortedStrings(set) ==
    IF set = {} THEN <<>>
    ELSE LET least == CHOOSE x \in set : \A y \in set \ {x} : StrLess(x, y)
         IN  <<least>> \o SortedStrings(set \ {least})

\* _generate_imports
GenerateImports(imports) ==
    LET ims == SortedStrings(imports)
    IN  [i \in 1..Len(ims) |-> <<"i", "m", "p", "o", "r", "t", " ">> \o ims[i]]

\* _generate_codes, for sorted(self._messages) = ordered
GenerateCodes(ordered) ==
    [i \in 1..Len(ordered) |->
        ordered[i].message_code_name \o <<" ", "=", " ">> \o str(ordered[i].code)]

\* _generate_empties: the names joined into the EMPTY_RESPONSES literal, for
\* sorted(self._empty_responses) = ordered
GenerateEmpties(ordered) ==
    [i \in 1..Len(ordered) |-> ordered[i].message_code_name]

\* _generate_mapping; pair.split(' ') joined by linesep + '    ' puts the
\* separator in the place of every blank.
GenerateMapping(m) ==
    LET klass == IF m.message_class # None
                 THEN m.module_name \o <<".">> \o m.message_class
                 ELSE NoneText
        pair == m.message_code_name \o <<":", " ">> \o klass
    IN  IF Len(pair) > WrapWidth THEN replace(pair, " ", linesep \o Indent)
        ELSE pair

\* _generate_classes: the pairs joined into the MESSAGE_CLASSES literal.
GenerateClasses(ordered) ==
    [i \in 1..Len(ordered) |-> GenerateMapping(ordered[i])]

\* EMPTY_RESPONSES built from sorted(self._messages).
GeneratedEmptiesFromMessages(msgs, imports, empties) ==
    {[imports |-> GenerateImports(imports),
      codes |-> GenerateCodes(byCode),
      empties |-> GenerateEmpties(byCode),
      classes |-> GenerateClasses(byCode)] : byCode \in SortedMessages(msgs)}

\* The _contents that _generate can build: imports, protocol codes,
\* EMPTY_RESPONSES and MESSAGE_CLASSES. The licence and the docstring before
\* them are fixed text and left out. Both sorted(self._messages) calls
\* iterate the same unchanged set and return the same list.
Generated(msgs, imports, empties) ==
    {[imports |-> GenerateImports(imports),
      codes |-> GenerateCodes(byCode),
      empties |-> GenerateEmpties(emptyByCode),
      classes |-> GenerateClasses(byCode)] :
        byCode \in SortedMessages(msgs), emptyByCode \in SortedMessages(empties)}

-----------------------------------------------------------------------------
(* The commands                                                            *)

MaxRows == 2
MaxLoaded == 3

Init ==
    /\ messages = EmptyBag
    /\ pb_imports = {}
    /\ empty_responses = EmptyBag
    /\ source = <<>>
    /\ newer = TRUE
    /\ contents = <<>>
    /\ destination = <<>>
    /\ status = "idle"
    /\ arg = <<>>
    /\ ret = None

\* The catalog file is written outside the commands: a row is added to it.
AppendRow(row) ==
    /\ Len(source) < MaxRows
    /\ source' = Append(source, row)
    /\ newer' = TRUE
    /\ UNCHANGED <<messages, pb_imports, empty_responses, contents, destination,
                   status, arg, ret>>

\* The catalog file is written anew, empty.
TruncateSource ==
    /\ source # <<>>
    /\ source' = <<>>
    /\ newer' = TRUE
    /\ UNCHANGED <<messages, pb_imports, empty_responses, contents, destination,
                   status, arg, ret>>

\* build_messages.run: make_file calls _load_and_generate when self.force is
\* set (by the caller of the command), the destination is missing or the
\* source is newer than it, and does nothing otherwise. _load raising ends the
\* run before _generate; write_file is the last statement of _generate. The
\* guard on MaxLoaded bounds the accumulators, which only grow.
Run(force) ==
    /\ force \/ destination = <<>> \/ newer
    /\ BagCardinality(messages) + Len(source) <= MaxLoaded
    /\ LET loaded == LoadRows([messages |-> messages,
                               pb_imports |-> pb_imports,
                               empty_responses |-> empty_responses,
                               raised |-> FALSE], source)
       IN  /\ messages' = loaded.messages
           /\ pb_imports' = loaded.pb_imports
           /\ empty_responses' = loaded.empty_responses
           /\ IF loaded.raised
              THEN /\ status' = "failed"
                   /\ UNCHANGED <<contents, destination, newer>>
              ELSE /\ status' = "ok"
                   /\ \E text \in Generated(loaded.messages, loaded.pb_imports,
                                               loaded.empty_responses) :
                          /\ contents' = <<text>>
                          /\ destination' = <<text>>
                   /\ newer' = FALSE
    /\ UNCHANGED <<source, arg, ret>>

\* clean_messages.run
Clean ==
    /\ destination # <<>>
    /\ destination' = <<>>
    /\ UNCHANGED <<messages, pb_imports, empty_responses, source, newer,
                   contents, status, arg, ret>>

Next ==
    \/ \E row \in Rows : AppendRow(row)
    \/ TruncateSource
    \/ \E force \in BOOLEAN : Run(force)
    \/ Clean

Spec == Init /\ [][Next]_vars

-----------------------------------------------------------------------------
(* Reading the generated text                                              *)

Range(seq) == {seq[i] : i \in 1..Len(seq)}

\* The part of line before the first c, and the part after the last c.
Before(line, c) ==
    SubSeq(line, 1, (CHOOSE i \in 1..Len(line) :
                        line[i] = c /\ \A j \in 1..(i - 1) : line[j] # c) - 1)
AfterLast(line, c) ==
    SubSeq(line, (CHOOSE i \in 1..Len(line) :
                     line[i] = c /\ \A j \in (i + 1)..Len(line) : line[j] # c) + 1,
           Len(line))

\* The code that a line '<name> = <code>' gives, and the name it gives it to.
CodeOf(line) == int(AfterLast(line, " "))
NameOf(line) == Before(line, " ")

\* The key and the value of an entry '<name>: <value>' of MESSAGE_CLASSES.
KeyOf(entry) == Before(entry, ":")
ValueOf(entry) == AfterLast(entry, " ")

\* The last run generated, and the catalog file is as that run read it.
UpToDate == status = "ok" /\ ~newer

\* The rows of a catalog have pairwise distinct codes.
DistinctCodes(rows) ==
    \A i, j \in 1..Len(rows) : i # j => int(rows[i][1]) # int(rows[j][1])

\* The row of a set of rows of distinct codes with i - 1 rows of smaller code.
RowOfRank(rows, i) ==
    CHOOSE r \in rows : Cardinality({q \in rows : int(q[1]) < int(r[1])}) = i - 1

-----------------------------------------------------------------------------
(* Properties of the commands                                              *)

\* C1: for a catalog of pairwise distinct codes the constant definitions
\* '<name> = <code>' are in strictly ascending order of code, no code twice.
C1_AsStated ==
    (UpToDate /\ DistinctCodes(source)) =>
        LET codes == contents[1].codes
        IN  \A i, j \in 1..Len(codes) :
                i < j => CodeOf(codes[i]) < CodeOf(codes[j])

\* C2 as stated: after a generation every loaded message has an entry in
\* MESSAGE_CLASSES; one without class is in EMPTY_RESPONSES and mapped to
\* None, one with a class is mapped to '<module>.<class>' and its constant
\* name is not in EMPTY_RESPONSES.
C2_AsStated ==
    status = "ok" =>
        LET classes == contents[1].classes
            empties == Range(contents[1].empties)
        IN  /\ Len(classes) = BagCardinality(messages)
            /\ \A m \in BagToSet(messages) :
                  IF m.message_class = None
                  THEN /\ m.message_code_name \in empties
                       /\ \E i \in 1..Len(classes) :
                             /\ KeyOf(classes[i]) = m.message_code_name
                             /\ ValueOf(classes[i]) = <<"N", "o", "n", "e">>
                  ELSE /\ m.message_code_name \notin empties
                       /\ \E i \in 1..Len(classes) :
                             /\ KeyOf(classes[i]) = m.message_code_name
                             /\ ValueOf(classes[i]) =
                                    m.module_name \o <<".">> \o m.message_class

\* C2 amended: as C2, but the constant name of a message with a class is in
\* EMPTY_RESPONSES exactly when a loaded message without class has the same
\* constant name.
C2_Classes ==
    status = "ok" =>
        LET classes == contents[1].classes
            empties == Range(contents[1].empties)
        IN  /\ Len(classes) = BagCardinality(messages)
            /\ \A m \in BagToSet(messages) :
                  IF m.message_class = None
                  THEN /\ m.message_code_name \in empties
                       /\ \E i \in 1..Len(classes) :
                             /\ KeyOf(classes[i]) = m.message_code_name
                             /\ ValueOf(classes[i]) = <<"N", "o", "n", "e">>
                  ELSE /\ m.message_code_name \in empties <=>
                              \E o \in BagToSet(messages) :
                                  /\ o.message_code_name = m.message_code_name
                                  /\ o.message_class = None
                       /\ \E i \in 1..Len(classes) :
                             /\ KeyOf(classes[i]) = m.message_code_name
                             /\ ValueOf(classes[i]) =
                                    m.module_name \o <<".">> \o m.message_class

\* A generation from a message with a class, wrapped in MESSAGE_CLASSES, and
\* messages with and without class that share a constant name.
C2_Witness ==
    /\ status = "ok"
    /\ \E m, o \in BagToSet(messages) :
          /\ m.message_class # None
          /\ o.message_class = None
          /\ m.message_code_name = o.message_code_name
    /\ \E i \in 1..Len(contents[1].classes) : "\n" \in Range(contents[1].classes[i])

\* C3: generating again from the catalog that the last generation read gives
\* the same output, with one constant definition and one entry of
\* MESSAGE_CLASSES for each of its rows.
C3_AsStated ==
    [][\A force \in BOOLEAN :
          (UpToDate /\ Run(force)) =>
              /\ contents' = contents
              /\ Len(contents'[1].codes) = Len(source)
              /\ Len(contents'[1].classes) = Len(source)]_vars

\* C4: while the catalog has a malformed row, wherever it stands, a run fails
\* and no step but a change of the catalog file writes or changes the
\* destination: the step leaves _contents alone, it leaves the destination
\* alone unless it is clean_messages removing it, and a step that loads or
\* sets the outcome of a run sets it to failed.
C4_NoOutput ==
    [][((\E i \in 1..Len(source) : Raises(source[i])) /\ source' = source) =>
          /\ contents' = contents
          /\ destination' # destination =>
                 (destination' = <<>> /\ status' = status /\ messages' = messages)
          /\ (status' # status \/ messages' # messages) => status' = "failed"]_vars

\* A failed run over a well-formed row followed by a malformed one, with the
\* destination of an earlier generation in place.
C4_Witness ==
    /\ status = "failed"
    /\ destination # <<>>
    /\ Len(source) = 2
    /\ ~Raises(source[1])
    /\ Raises(source[2])

\* C5: the import statements are the distinct module references of the
\* catalog, each once, in alphabetical order, and no other.
C5_AsStated ==
    UpToDate =>
        LET lines == contents[1].imports
            modules == {module_name(source[i][3]) : i \in 1..Len(source)}
        IN  /\ Range(lines) = {<<"i", "m", "p", "o", "r", "t", " ">> \o m : m \in modules}
            /\ Len(lines) = Cardinality(modules)
            /\ \A i, j \in 1..Len(lines) : i < j => StrLess(lines[i], lines[j])

\* C7: for a catalog of pairwise distinct codes the three tables are those of
\* the set of its rows, each in ascending order of code.
C7_AsStated ==
    (UpToDate /\ DistinctCodes(source)) =>
        LET rows == Range(source)
            byCode == [i \in 1..Cardinality(rows) |-> Constructed[RowOfRank(rows, i)]]
            NoClass(m) == m.message_class = None
        IN  /\ contents[1].codes =
                   [i \in 1..Len(byCode) |->
                       byCode[i].message_code_name \o <<" ", "=", " ">>
                           \o str(byCode[i].code)]
            /\ contents[1].empties =
                   [i \in 1..Len(SelectSeq(byCode, NoClass)) |->
                       SelectSeq(byCode, NoClass)[i].message_code_name]
            /\ contents[1].classes =
                   [i \in 1..Len(byCode) |-> GenerateMapping(byCode[i])]

\* The accumulators agree: _empty_responses holds the members of _messages
\* without class, _pb_imports the module names of the members of _messages.
Accumulated ==
    /\ BagToSet(empty_responses) \subseteq BagToSet(messages)
    /\ \A m \in BagToSet(messages) :
          CopiesIn(m, empty_responses) =
              IF m.message_class = None THEN CopiesIn(m, messages) ELSE 0
    /\ pb_imports = {m.module_name : m \in BagToSet(messages)}

\* C10: after any loads, a load that a malformed row ended included, the
\* accumulators agree, and no step takes an element out of any of them.
C10_Accumulators ==
    /\ Accumulated
    /\ [][/\ Accumulated'
          /\ messages \sqsubseteq messages'
          /\ empty_responses \sqsubseteq empty_responses'
          /\ pb_imports \subseteq pb_imports']_vars

\* A load that a malformed row ended after it had loaded a message without
\* class for the second time.
C10_Witness ==
    /\ status = "failed"
    /\ BagCardinality(messages) >= 2
    /\ \E m \in BagToSet(messages) : CopiesIn(m, empty_responses) = 2
    /\ pb_imports # {}

-----------------------------------------------------------------------------
(* Message names handed to _message_code_name on its own                   *)

MaxNameLen == 5

NameAlphabet == {"R", "p", "b", "X", "1", "-"}

BoundedNames == UNION {[1..n -> NameAlphabet] : n \in 0..MaxNameLen}

Names == BoundedNames \cup {RpbErrorResp, RpbGetClientIdReq}

InitName ==
    /\ messages = EmptyBag
    /\ pb_imports = {}
    /\ empty_responses = EmptyBag
    /\ source = <<>>
    /\ newer = TRUE
    /\ contents = <<>>
    /\ destination = <<>>
    /\ status = "idle"
    /\ arg \in Names
    /\ ret = None

\* MessageCodeMapping.__init__ up to self.message_code_name.
DeriveName ==
    /\ ret = None
    /\ ret' = message_code_name(arg)
    /\ UNCHANGED <<messages, pb_imports, empty_responses, source, newer,
                   contents, destination, status, arg>>

NextName == DeriveName

SpecName == InitName /\ [][NextName]_vars

-----------------------------------------------------------------------------
(* Properties of _message_code_name                                        *)

MSG_CODE_ERROR_RESP ==
    <<"M", "S", "G", "_", "C", "O", "D", "E", "_", "E", "R", "R", "O", "R", "_",
      "R", "E", "S", "P">>
MSG_CODE_GET_CLIENT_ID_REQ ==
    <<"M", "S", "G", "_", "C", "O", "D", "E", "_", "G", "E", "T", "_", "C", "L",
      "I", "E", "N", "T", "_", "I", "D", "_", "R", "E", "Q">>

\* C6: _message_code_name maps "RpbErrorResp" to "MSG_CODE_ERROR_RESP" and
\* "RpbGetClientIdReq" to "MSG_CODE_GET_CLIENT_ID_REQ".
C6_Examples ==
    ret # None =>
        /\ (arg = RpbErrorResp => ret = MSG_CODE_ERROR_RESP)
        /\ (arg = RpbGetClientIdReq => ret = MSG_CODE_GET_CLIENT_ID_REQ)

C6_Witness == arg = RpbGetClientIdReq /\ ret = MSG_CODE_GET_CLIENT_ID_REQ

\* word from position k on, with an underscore put before every position in at.
RECURSIVE InsertFrom(_, _, _)
InsertFrom(word, k, at) ==
    IF k > Len(word) THEN <<>>
    ELSE (IF k \in at THEN <<"_", word[k]>> ELSE <<word[k]>>)
             \o InsertFrom(word, k + 1, at)

\* Position k is a capital followed by a lower-case letter and preceded by a
\* run of at least n capitals.
AcronymBoundary(word, k, n) ==
    /\ k > n
    /\ k < Len(word)
    /\ \A j \in (k - n)..k : IsUpper(word[j])
    /\ IsLower(word[k + 1])

AcronymBoundary1(word, k) == AcronymBoundary(word, k, 1)
AcronymBoundary2(word, k) == AcronymBoundary(word, k, 2)

\* Position k is a capital preceded by a lower-case letter or a digit.
CamelBoundary(word, k) ==
    /\ k > 1
    /\ IsUpper(word[k])
    /\ IsLower(word[k - 1]) \/ IsDigit(word[k - 1])

\* The five steps, the second with the boundary rule given.
FiveSteps(name, Step2Boundary(_, _)) ==
    LET step1 == IF Len(name) >= 3 /\ SubSeq(name, 1, 3) = <<"R", "p", "b">>
                 THEN SubSeq(name, 4, Len(name)) ELSE name
        step2 == InsertFrom(step1, 1, {k \in 1..Len(step1) : Step2Boundary(step1, k)})
        step3 == InsertFrom(step2, 1, {k \in 1..Len(step2) : CamelBoundary(step2, k)})
        step4 == [i \in 1..Len(step3) |-> IF step3[i] = "-" THEN "_" ELSE step3[i]]
    IN  <<"M", "S", "G", "_", "C", "O", "D", "E", "_">>
            \o [i \in 1..Len(step4) |-> UpperChar(step4[i])]

\* C8 as stated: the result is that of the five steps, the second putting an
\* underscore only between a run of two or more capitals and a following
\* capital-then-lower-case pair.
C8_AsStated == ret # None => ret = FiveSteps(arg, AcronymBoundary2)

\* C8 amended: the result is that of the five steps, the second putting an
\* underscore between a run of one or more capitals and a following
\* capital-then-lower-case pair, the third between a lower-case letter or
\* digit and a following capital.
C8_FiveSteps == ret # None => ret = FiveSteps(arg, AcronymBoundary1)

\* A single capital directly followed by a capital-then-lower-case pair, and
\* a digit followed by a capital.
C8_Witness ==
    /\ arg = <<"1", "X", "R", "p">>
    /\ ret = <<"M", "S", "G", "_", "C", "O", "D", "E", "_", "1", "_", "X", "_", "R", "P">>

\* C9: for a name of letters, digits and hyphens the constant name starts
\* with MSG_CODE_ and holds only capitals, digits and underscores.
C9_Identifier ==
    ret # None =>
        /\ Len(ret) >= 9
        /\ SubSeq(ret, 1, 9) = <<"M", "S", "G", "_", "C", "O", "D", "E", "_">>
        /\ \A i \in 1..Len(ret) : IsUpper(ret[i]) \/ IsDigit(ret[i]) \/ ret[i] = "_"

\* A name with a hyphen, a lower-case letter and no prefix.
C9_Witness ==
    /\ arg = <<"p", "-", "X">>
    /\ ret = <<"M", "S", "G", "_", "C", "O", "D", "E", "_", "P", "_", "X">>

====
